---------------------------- MODULE Spec2Model ----------------------------
(***************************************************************************)
(* Model of the Adafruit_VEML6070 driver (A9 port).                        *)
(*                                                                         *)
(* The driver keeps a one-byte shadow of the sensor's command register     *)
(* (a bit-field union), flushes it to the device with writeCommand(), and  *)
(* reads the UV sample from two bus addresses after an integration wait.   *)
(*                                                                         *)
(* Every public method is a sequence of steps: the step that enters the    *)
(* method (and performs its field assignments), then one step per bus      *)
(* transaction and per OS_Sleep call.  pc is the position of the single    *)
(* calling thread; the driver is single-threaded, so a method always runs  *)
(* to its return before the next one is entered.                           *)
(*                                                                         *)
(* Bit-fields are allocated from the least significant bit (GCC on the     *)
(* little-endian A9 target), which is also the layout of the device's      *)
(* command byte: SD bit 0, reserved bit 1, IT bits 3:2, ACK_THD bit 4,     *)
(* ACK bit 5.                                                              *)
(***************************************************************************)
EXTENDS Integers, Sequences, FiniteSets, TLC

VARIABLES
    commandRegister, \* _commandRegister.reg, the in-memory command byte
    devReg,          \* the device's command register: <<>> unknown, <<b>> known
    lastWriteOk,     \* outcome of the most recent I2C_Transmit
    lastTx,          \* byte of the most recent I2C_Transmit: <<>> none, <<b>>
    pc,              \* position of the calling thread
    op,              \* the method being executed (or the last one executed)
    prevOp,          \* the method executed before op
    requested,       \* the itime argument begin was called with
    log,             \* bus transactions and sleeps issued by the method op
    itCount,         \* waitForNext: local itCount
    i,               \* waitForNext: counter of the sleep loop
    highByte,        \* readUV: local highByte
    lowByte,         \* readUV: local lowByte
    retAck,          \* value returned by the last clearAck()
    retUV            \* value returned by the last readUV()

vars == <<commandRegister, devReg, lastWriteOk, lastTx, pc, op, prevOp,
          requested, log,
          itCount, i, highByte, lowByte, retAck, retUV>>

-----------------------------------------------------------------------------
(* Bounds and program constants *)

\* Bus inputs are drawn from 0..MaxSmallByte together with the top byte 255.
MaxSmallByte == 1

ByteVals == (0 .. MaxSmallByte) \cup {255}

\* Every value of a uint8_t.
Byte == 0 .. 255

VEML6070_ADDR_H == 57

VEML6070_ADDR_L == 56

VEML6070_ADDR_ARA == 12

VEML6070_HALF_T == 0

VEML6070_1_T == 1

VEML6070_2_T == 2

VEML6070_4_T == 3

veml6070_integrationtime_t ==
    {VEML6070_HALF_T, VEML6070_1_T, VEML6070_2_T, VEML6070_4_T}

\* Argument of every OS_Sleep call of waitForNext.
SleepDuration == 63

\* The byte with IT = 1 (0x06) in place of the constructor's.
DefaultReg_IT1 == 2 + 4

\* _commandRegister.reg as the constructor sets it (0x02).
DefaultReg == 2

-----------------------------------------------------------------------------
(* The commandRegister union: bit-fields over the byte reg *)

Pow2(n) == 2 ^ n

\* The value of the bit-field of `width` bits starting at bit `shift`.
GetField(r, shift, width) == (r \div Pow2(shift)) % Pow2(width)

\* Assignment to a bit-field: the value is truncated to the field's width.
SetField(r, shift, width, v) ==
    r - GetField(r, shift, width) * Pow2(shift)
      + (v % Pow2(width)) * Pow2(shift)

\* Conversion of a C++ bool to an integer.
BoolInt(b) == IF b THEN 1 ELSE 0

SD(r) == GetField(r, 0, 1)

Reserved(r) == GetField(r, 1, 1)

IT(r) == GetField(r, 2, 2)

ACK_THD(r) == GetField(r, 4, 1)

ACK(r) == GetField(r, 5, 1)

\* An SD field two bits wide, reaching into bit 1.
SetSD_TwoBits(r, v) == SetField(r, 0, 2, v)

SetSD(r, v) == SetField(r, 0, 1, v)

SetIT(r, v) == SetField(r, 2, 2, v)

SetACK_THD(r, v) == SetField(r, 4, 1, v)

\* An ACK field placed at bit 6.
SetACK_Bit6(r, v) == SetField(r, 6, 1, v)

SetACK(r, v) == SetField(r, 5, 1, v)

-----------------------------------------------------------------------------
(* Integer helpers *)

\* Conversion to uint16_t (the return type of readUV).
ToUint16(x) == x % 65536

\* Bitwise or of two naturals, bit by bit.
RECURSIVE BitOr(_, _)
BitOr(a, b) ==
    IF a = 0 THEN b
    ELSE IF b = 0 THEN a
    ELSE (IF (a % 2 = 1) \/ (b % 2 = 1) THEN 1 ELSE 0)
         + 2 * BitOr(a \div 2, b \div 2)

\* A loop that adds where the code doubles.
RECURSIVE ItCountLoop_Adds(_, _)
ItCountLoop_Adds(k, count) ==
    IF k > 0 THEN ItCountLoop_Adds(k - 1, (count + 2) % 256) ELSE count

\* waitForNext: for (i = IT; i > 0; i--) itCount *= 2, on uint8_t.
RECURSIVE ItCountLoop(_, _)
ItCountLoop(k, count) ==
    IF k > 0 THEN ItCountLoop(k - 1, (count * 2) % 256) ELSE count

\* A combination with the two bytes in each other's place.
CombineUV_Swapped(high, low) == ToUint16(BitOr(low * 256, high))

\* readUV: (highByte << 8) | lowByte, returned as uint16_t.
CombineUV(high, low) == ToUint16(BitOr(high * 256, low))

\* readUV: return -1, from a function returning uint16_t.
FailUV == ToUint16(-1)

\* clearAck: the byte in res after I2C_Receive; res is initialised to 0 and a
\* failed receive delivers no byte.
ReceivedRes(ok, b) == IF ok THEN b ELSE 0

\* A result that is true only for the byte 1.
AckResult_OnlyOne(res) == res = 1

\* clearAck: return res, converted to bool.
AckResult(res) == res # 0

-----------------------------------------------------------------------------
(* Log entries *)

Rx(addr, ok, data) == [ev |-> "rx", addr |-> addr, ok |-> ok, data |-> data]

Tx(addr, ok, data) == [ev |-> "tx", addr |-> addr, ok |-> ok, data |-> data]

Slept(duration) == [ev |-> "sleep", addr |-> 0, ok |-> TRUE, data |-> duration]

NoOp == [name |-> "none", args |-> <<>>]

-----------------------------------------------------------------------------
(* Construction *)

Init ==
    /\ commandRegister = DefaultReg
    /\ devReg = <<>>
    /\ lastWriteOk = FALSE
    /\ lastTx = <<>>
    /\ pc = "idle"
    /\ op = NoOp
    /\ prevOp = NoOp
    /\ requested = VEML6070_HALF_T
    /\ log = <<>>
    /\ itCount = 0
    /\ i = 0
    /\ highByte = 0
    /\ lowByte = 0
    /\ retAck = FALSE
    /\ retUV = 0

begun == op.name # "none"

\* Entry of a public method: a new call record, fresh locals and results.
Enter(name, args, next) ==
    /\ pc = "idle"
    /\ pc' = next
    /\ op' = [name |-> name, args |-> args]
    /\ prevOp' = op
    /\ log' = <<>>
    /\ highByte' = 0
    /\ lowByte' = 0
    /\ retAck' = FALSE
    /\ retUV' = 0


-----------------------------------------------------------------------------
(* Public methods: the step that enters each one *)

\* A begin that writes the command without clearing the alert first.
Begin_NoClearAck(itime) ==
    /\ op.name = "none"
    /\ Enter("begin", <<itime>>, "begin_writeCommand")
    /\ commandRegister' = SetIT(commandRegister, itime)
    /\ requested' = itime
    /\ UNCHANGED <<devReg, lastWriteOk, lastTx, itCount, i>>

\* begin(i2c, itime): I2C_Init, then IT = itime; clearAck and writeCommand
\* follow.  begin is the first method called, and is called once.
Begin(itime) ==
    /\ ~begun
    /\ Enter("begin", <<itime>>, "begin_clearAck")
    /\ commandRegister' = SetIT(commandRegister, itime)
    /\ requested' = itime
    /\ UNCHANGED <<devReg, lastWriteOk, lastTx, itCount, i>>

\* A setInterrupt that writes the command without clearing the alert first.
SetInterrupt_NoClearAck(state, level) ==
    /\ begun
    /\ Enter("setInterrupt", <<state, level>>, "setInterrupt_writeCommand")
    /\ commandRegister' =
           SetACK_THD(SetACK(commandRegister, BoolInt(state)), BoolInt(level))
    /\ UNCHANGED <<devReg, lastWriteOk, lastTx, requested, itCount, i>>

\* A setInterrupt that clears the alert and returns without writing.
SetInterrupt_NoWrite(state, level) ==
    /\ begun
    /\ Enter("setInterrupt", <<state, level>>, "clearAck")
    /\ commandRegister' =
           SetACK_THD(SetACK(commandRegister, BoolInt(state)), BoolInt(level))
    /\ UNCHANGED <<devReg, lastWriteOk, lastTx, requested, itCount, i>>

\* setInterrupt(state, level): ACK = state, ACK_THD = level; clearAck and
\* writeCommand follow.
SetInterrupt(state, level) ==
    /\ begun
    /\ Enter("setInterrupt", <<state, level>>, "setInterrupt_clearAck")
    /\ commandRegister' =
           SetACK_THD(SetACK(commandRegister, BoolInt(state)), BoolInt(level))
    /\ UNCHANGED <<devReg, lastWriteOk, lastTx, requested, itCount, i>>

\* A sleep that sets SD and returns without flushing the byte.
Sleep_NoWrite(state) ==
    /\ begun
    /\ Enter("sleep", <<state>>, "idle")
    /\ commandRegister' = SetSD(commandRegister, BoolInt(state))
    /\ UNCHANGED <<devReg, lastWriteOk, lastTx, requested, itCount, i>>

\* A sleep that assigns state to the whole byte instead of the SD field.
Sleep_WholeReg(state) ==
    /\ begun
    /\ Enter("sleep", <<state>>, "sleep_writeCommand")
    /\ commandRegister' = BoolInt(state)
    /\ UNCHANGED <<devReg, lastWriteOk, lastTx, requested, itCount, i>>

\* sleep(state): SD = state; writeCommand follows.
Sleep(state) ==
    /\ begun
    /\ Enter("sleep", <<state>>, "sleep_writeCommand")
    /\ commandRegister' = SetSD(commandRegister, BoolInt(state))
    /\ UNCHANGED <<devReg, lastWriteOk, lastTx, requested, itCount, i>>

\* A clearAck that also resets the ACK field of the in-memory register.
ClearAck_ResetsAck ==
    /\ begun
    /\ Enter("clearAck", <<>>, "clearAck")
    /\ commandRegister' = SetACK(commandRegister, 0)
    /\ UNCHANGED <<devReg, lastWriteOk, lastTx, requested, itCount, i>>

\* clearAck() called by the application.
ClearAck ==
    /\ begun
    /\ Enter("clearAck", <<>>, "clearAck")
    /\ UNCHANGED <<commandRegister, devReg, lastWriteOk, lastTx, requested,
                   itCount, i>>

\* waitForNext(): itCount = 2^IT, computed by the doubling loop.
WaitEntry ==
    /\ itCount' = ItCountLoop(IT(commandRegister), 1)
    /\ i' = 0

\* waitForNext() called by the application.
WaitForNext ==
    /\ begun
    /\ Enter("waitForNext", <<>>, "waitForNext")
    /\ WaitEntry
    /\ UNCHANGED <<commandRegister, devReg, lastWriteOk, lastTx, requested>>

\* A readUV that reads without waiting for the integration period.
ReadUV_NoWait ==
    /\ begun
    /\ Enter("readUV", <<>>, "readUV_high")
    /\ UNCHANGED <<commandRegister, devReg, lastWriteOk, lastTx, requested,
                   itCount, i>>

\* readUV(): starts with waitForNext().
ReadUV ==
    /\ begun
    /\ Enter("readUV", <<>>, "readUV_wait")
    /\ WaitEntry
    /\ UNCHANGED <<commandRegister, devReg, lastWriteOk, lastTx, requested>>

-----------------------------------------------------------------------------
(* Steps inside the methods *)

\* Where clearAck() returns to.
AfterClearAck(p) ==
    CASE p = "begin_clearAck" -> "begin_writeCommand"
      [] p = "setInterrupt_clearAck" -> "setInterrupt_writeCommand"
      [] OTHER -> "idle"

\* A clearAck that repeats the read until it succeeds.
clearAck_Retry(ok, b) ==
    /\ pc \in {"begin_clearAck", "setInterrupt_clearAck", "clearAck"}
    /\ log' = Append(log, Rx(VEML6070_ADDR_ARA, ok, IF ok THEN b ELSE 0))
    /\ retAck' = IF pc = "clearAck" /\ ok
                 THEN AckResult(ReceivedRes(ok, b)) ELSE retAck
    /\ pc' = IF ok THEN AfterClearAck(pc) ELSE pc
    /\ UNCHANGED <<commandRegister, devReg, lastWriteOk, lastTx, op,
                   prevOp, requested, itCount, i, highByte, lowByte, retUV>>

\* clearAck(): one I2C_Receive of one byte at VEML6070_ADDR_ARA; an error is
\* traced and res returned.  begin and setInterrupt discard the result.
clearAck(ok, b) ==
    /\ pc \in {"begin_clearAck", "setInterrupt_clearAck", "clearAck"}
    /\ log' = Append(log, Rx(VEML6070_ADDR_ARA, ok, IF ok THEN b ELSE 0))
    /\ retAck' = IF pc = "clearAck"
                 THEN AckResult(ReceivedRes(ok, b)) ELSE retAck
    /\ pc' = AfterClearAck(pc)
    /\ UNCHANGED <<commandRegister, devReg, lastWriteOk, lastTx, op,
                   prevOp, requested,
                   itCount, i, highByte, lowByte, retUV>>

\* A writeCommand that transmits to the high data address.
writeCommand_ToAddrH(ok) ==
    /\ pc \in {"begin_writeCommand", "setInterrupt_writeCommand",
               "sleep_writeCommand"}
    /\ log' = Append(log, Tx(VEML6070_ADDR_H, ok, commandRegister))
    /\ lastWriteOk' = ok
    /\ lastTx' = <<commandRegister>>
    /\ devReg' \in IF ok THEN {<<commandRegister>>}
                         ELSE {devReg, <<commandRegister>>}
    /\ pc' = "idle"
    /\ UNCHANGED <<commandRegister, op, prevOp, requested, itCount, i,
                   highByte, lowByte, retAck, retUV>>

\* writeCommand(): one I2C_Transmit of _commandRegister.reg to
\* VEML6070_ADDR_L; an error is traced.  The device takes the byte of a
\* successful write; after a failed one its register is the old or the new
\* value.
writeCommand(ok) ==
    /\ pc \in {"begin_writeCommand", "setInterrupt_writeCommand",
               "sleep_writeCommand"}
    /\ log' = Append(log, Tx(VEML6070_ADDR_L, ok, commandRegister))
    /\ lastWriteOk' = ok
    /\ lastTx' = <<commandRegister>>
    /\ devReg' \in IF ok THEN {<<commandRegister>>}
                         ELSE {devReg, <<commandRegister>>}
    /\ pc' = "idle"
    /\ UNCHANGED <<commandRegister, op, prevOp, requested, itCount, i,
                   highByte, lowByte, retAck, retUV>>

\* waitForNext(): one iteration of for (i = 0; i < itCount; i++) OS_Sleep(63).
OSSleep ==
    /\ pc \in {"readUV_wait", "waitForNext"}
    /\ i < itCount
    /\ log' = Append(log, Slept(SleepDuration))
    /\ i' = (i + 1) % 256
    /\ UNCHANGED <<commandRegister, devReg, lastWriteOk, lastTx, pc, op,
                   prevOp, requested,
                   itCount, highByte, lowByte, retAck, retUV>>

\* waitForNext(): the sleep loop ends and waitForNext returns.
WaitReturn ==
    /\ pc \in {"readUV_wait", "waitForNext"}
    /\ ~(i < itCount)
    /\ pc' = IF pc = "readUV_wait" THEN "readUV_high" ELSE "idle"
    /\ UNCHANGED <<commandRegister, devReg, lastWriteOk, lastTx, op,
                   prevOp, requested,
                   log, itCount, i, highByte, lowByte, retAck, retUV>>

\* A high-byte read that goes on to the low-byte read when it fails.
ReadHigh_Continues(ok, b) ==
    /\ pc = "readUV_high"
    /\ log' = Append(log, Rx(VEML6070_ADDR_H, ok, IF ok THEN b ELSE 0))
    /\ highByte' = IF ok THEN b ELSE highByte
    /\ pc' = "readUV_low"
    /\ retUV' = retUV
    /\ UNCHANGED <<commandRegister, devReg, lastWriteOk, lastTx, op,
                   prevOp, requested, itCount, i, lowByte, retAck>>

\* readUV(): I2C_Receive at VEML6070_ADDR_H into highByte; return -1 on error.
ReadHigh(ok, b) ==
    /\ pc = "readUV_high"
    /\ log' = Append(log, Rx(VEML6070_ADDR_H, ok, IF ok THEN b ELSE 0))
    /\ IF ok
       THEN /\ highByte' = b
            /\ pc' = "readUV_low"
            /\ retUV' = retUV
       ELSE /\ highByte' = highByte
            /\ pc' = "idle"
            /\ retUV' = FailUV
    /\ UNCHANGED <<commandRegister, devReg, lastWriteOk, lastTx, op,
                   prevOp, requested,
                   itCount, i, lowByte, retAck>>

\* A low-byte read that falls through to the combination when it fails.
ReadLow_FallThrough(ok, b) ==
    /\ pc = "readUV_low"
    /\ log' = Append(log, Rx(VEML6070_ADDR_L, ok, IF ok THEN b ELSE 0))
    /\ lowByte' = IF ok THEN b ELSE lowByte
    /\ retUV' = CombineUV(highByte, lowByte')
    /\ pc' = "idle"
    /\ UNCHANGED <<commandRegister, devReg, lastWriteOk, lastTx, op,
                   prevOp, requested,
                   itCount, i, highByte, retAck>>

\* readUV(): I2C_Receive at VEML6070_ADDR_L into lowByte; return -1 on error,
\* else return (highByte << 8) | lowByte.
ReadLow(ok, b) ==
    /\ pc = "readUV_low"
    /\ log' = Append(log, Rx(VEML6070_ADDR_L, ok, IF ok THEN b ELSE 0))
    /\ lowByte' = IF ok THEN b ELSE lowByte
    /\ retUV' = IF ok THEN CombineUV(highByte, b) ELSE FailUV
    /\ pc' = "idle"
    /\ UNCHANGED <<commandRegister, devReg, lastWriteOk, lastTx, op,
                   prevOp, requested,
                   itCount, i, highByte, retAck>>

-----------------------------------------------------------------------------
(* The driver under any sequence of calls and any pattern of failures *)

Next ==
    \/ \E itime \in veml6070_integrationtime_t : Begin(itime)
    \/ \E state \in BOOLEAN, level \in BOOLEAN : SetInterrupt(state, level)
    \/ \E state \in BOOLEAN : Sleep(state)
    \/ ClearAck
    \/ WaitForNext
    \/ ReadUV
    \/ \E ok \in BOOLEAN, b \in ByteVals : clearAck(ok, b)
    \/ \E ok \in BOOLEAN : writeCommand(ok)
    \/ OSSleep
    \/ WaitReturn
    \/ \E ok \in BOOLEAN, b \in ByteVals : ReadHigh(ok, b)
    \/ \E ok \in BOOLEAN, b \in ByteVals : ReadLow(ok, b)

Spec == Init /\ [][Next]_vars

-----------------------------------------------------------------------------
(* readUV() over every byte the bus can deliver *)

\* The driver after begin(VEML6070_1_T) has returned with both of its
\* transactions successful and no alert pending.
InitUV ==
    /\ commandRegister = SetIT(DefaultReg, VEML6070_1_T)
    /\ devReg = <<SetIT(DefaultReg, VEML6070_1_T)>>
    /\ lastWriteOk = TRUE
    /\ lastTx = <<SetIT(DefaultReg, VEML6070_1_T)>>
    /\ pc = "idle"
    /\ op = [name |-> "begin", args |-> <<VEML6070_1_T>>]
    /\ prevOp = NoOp
    /\ requested = VEML6070_1_T
    /\ log = <<Rx(VEML6070_ADDR_ARA, TRUE, 0),
               Tx(VEML6070_ADDR_L, TRUE, SetIT(DefaultReg, VEML6070_1_T))>>
    /\ itCount = 0
    /\ i = 0
    /\ highByte = 0
    /\ lowByte = 0
    /\ retAck = FALSE
    /\ retUV = 0

\* Repeated readUV() calls, the two data reads delivering any byte or failing.
NextUV ==
    \/ ReadUV
    \/ OSSleep
    \/ WaitReturn
    \/ \E ok \in BOOLEAN, b \in Byte : ReadHigh(ok, b)
    \/ \E ok \in BOOLEAN, b \in Byte : ReadLow(ok, b)

SpecUV == InitUV /\ [][NextUV]_vars

-----------------------------------------------------------------------------
(* Observations on the log of the current call *)

\* A public method has returned.
Returned(name) == op.name = name /\ pc = "idle"

IsRxAt(e, addr) == e.ev = "rx" /\ e.addr = addr

IsTxAt(e, addr) == e.ev = "tx" /\ e.addr = addr

\* The bus transactions of the current call, in order (sleeps left out).
BusLog == SelectSeq(log, LAMBDA e : e.ev # "sleep")

\* The sleeps of the current call.
SleepLog == SelectSeq(log, LAMBDA e : e.ev = "sleep")

\* The log is: one read at the alert-clear address, then one command write.
ClearThenWrite ==
    /\ Len(log) = 2
    /\ IsRxAt(log[1], VEML6070_ADDR_ARA)
    /\ IsTxAt(log[2], VEML6070_ADDR_L)

\* The log of a clear-then-write method that has not returned yet.
ClearThenWritePrefix(clearPc, writePc) ==
    /\ pc = clearPc => log = <<>>
    /\ pc = writePc => Len(log) = 1 /\ IsRxAt(log[1], VEML6070_ADDR_ARA)
    /\ pc = "idle" => ClearThenWrite

-----------------------------------------------------------------------------
(* C1 *)

\* C1: begin(itime), called first on a fresh driver, issues exactly one read
\* at the alert-clear address and then exactly one command write and nothing
\* else, for each of the four itime values and whatever the outcome of the
\* two transactions; on return IT is the requested itime and SD is 0.
C1_BeginClearsThenWrites ==
    op.name = "begin" =>
        /\ ClearThenWritePrefix("begin_clearAck", "begin_writeCommand")
        /\ pc \in {"begin_clearAck", "begin_writeCommand", "idle"}
        /\ op.args[1] \in veml6070_integrationtime_t
        /\ IT(commandRegister) = op.args[1]
        /\ SD(commandRegister) = 0

\* begin(VEML6070_4_T) has returned after both of its transactions failed.
C1_Witness ==
    /\ Returned("begin")
    /\ op.args = <<VEML6070_4_T>>
    /\ Len(log) = 2
    /\ ~log[1].ok
    /\ ~log[2].ok

-----------------------------------------------------------------------------
(* C2 *)

\* C2: in the state right after a command write that succeeded, the device's
\* command register equals the in-memory command byte; and once begin has
\* returned, whenever the driver is between calls and the two differ, the
\* most recent command write failed.  (Inside setInterrupt and sleep the
\* in-memory byte is already updated while its write is still to come.)
C2_ShadowMatchesDevice ==
    /\ (pc = "idle" /\ log # <<>> /\ log[Len(log)].ev = "tx"
            /\ log[Len(log)].ok)
           => devReg = <<commandRegister>>
    /\ (begun /\ pc = "idle" /\ devReg # <<commandRegister>>)
           => ~lastWriteOk

\* sleep(true) has returned after a successful write that re-synchronised a
\* device left behind by the failed write of begin.
C2_Witness ==
    /\ Returned("sleep")
    /\ prevOp.name = "begin"
    /\ SD(commandRegister) = 1
    /\ log[1].ok
    /\ lastWriteOk
    /\ devReg = <<commandRegister>>

-----------------------------------------------------------------------------
(* C3 *)

\* A data read of the current readUV() call failed.
UVReadFailed == \E k \in 1 .. Len(BusLog) : ~BusLog[k].ok

\* C3: when the high-byte read or the low-byte read of a readUV() call
\* fails, readUV() returns the sentinel 0xFFFF, which is not the combination
\* of the bytes the call holds (a byte read successfully, 0 for one not read).
C3_FailedReadGivesSentinel ==
    (Returned("readUV") /\ UVReadFailed) =>
        /\ retUV = 65535
        /\ retUV # highByte * 256 + lowByte

\* readUV() has returned after reading a non-zero high byte and then failing
\* to read the low byte.
C3_Witness ==
    /\ Returned("readUV")
    /\ Len(BusLog) = 2
    /\ BusLog[1].ok
    /\ BusLog[1].data = 255
    /\ ~BusLog[2].ok

-----------------------------------------------------------------------------
(* C4 *)

\* Both data reads of the current readUV() call were issued and succeeded.
UVReadsOk == Len(BusLog) = 2 /\ BusLog[1].ok /\ BusLog[2].ok

\* C4: for every byte pair (high, low), when the read at the data-high
\* address delivers high and the read at the data-low address delivers low,
\* readUV() returns high * 256 + low, the value of (high << 8) | low, and
\* that value fits 16 bits.
C4_CombinesHighLow ==
    (Returned("readUV") /\ UVReadsOk) =>
        /\ IsRxAt(BusLog[1], VEML6070_ADDR_H)
        /\ IsRxAt(BusLog[2], VEML6070_ADDR_L)
        /\ retUV = BusLog[1].data * 256 + BusLog[2].data
        /\ retUV \in 0 .. 65535

\* readUV() has returned 0x0102 for high = 0x01 and low = 0x02.
C4_Witness ==
    /\ Returned("readUV")
    /\ UVReadsOk
    /\ BusLog[1].data = 1
    /\ BusLog[2].data = 2
    /\ retUV = 258

-----------------------------------------------------------------------------
(* C5 *)

\* C5: the value readUV() returns when a data read fails (0xFFFF) is never
\* the value of a readUV() call whose two data reads succeeded.
C5_SentinelNeverAReading ==
    (Returned("readUV") /\ UVReadsOk) => retUV # 65535

-----------------------------------------------------------------------------
(* C6 *)

\* C6: clearAck() issues one read at the alert-clear address and nothing
\* else, and returns true exactly when that read succeeded and delivered a
\* non-zero byte: false for the byte 0, false for a failed read.
C6_ClearAckResult ==
    Returned("clearAck") =>
        /\ Len(log) = 1
        /\ IsRxAt(log[1], VEML6070_ADDR_ARA)
        /\ retAck = (log[1].ok /\ log[1].data # 0)

\* clearAck() has returned true for the byte 0xFF.
C6_Witness ==
    /\ Returned("clearAck")
    /\ log[1].ok
    /\ log[1].data = 255
    /\ retAck

-----------------------------------------------------------------------------
(* C7 *)

\* The number of sleeps the integration wait owes for each itime.
ExpectedSleeps(itime) ==
    CASE itime = VEML6070_HALF_T -> 1
      [] itime = VEML6070_1_T -> 2
      [] itime = VEML6070_2_T -> 4
      [] itime = VEML6070_4_T -> 8

\* C7: after begin(itime) and any sequence of setInterrupt, sleep, clearAck
\* and readUV calls, a completed integration wait (waitForNext, on its own or
\* inside readUV) has issued exactly 1, 2, 4, 8 sleeps for itime = Half, One,
\* Two, Four, each of duration 63, and a wait in progress has issued no more.
C7_WaitSleepCount ==
    op.name \in {"readUV", "waitForNext"} =>
        /\ \A k \in 1 .. Len(SleepLog) : SleepLog[k].data = 63
        /\ Len(SleepLog) <= ExpectedSleeps(requested)
        /\ pc \notin {"readUV_wait", "waitForNext"}
               => Len(SleepLog) = ExpectedSleeps(requested)

\* readUV() has returned after 8 sleeps, on a driver begun with Four and
\* reconfigured by setInterrupt since.
C7_Witness ==
    /\ Returned("readUV")
    /\ prevOp.name = "setInterrupt"
    /\ requested = VEML6070_4_T
    /\ Len(SleepLog) = 8

-----------------------------------------------------------------------------
(* C8 *)

\* C8: every setInterrupt(state, level) call sets ACK = state and
\* ACK_THD = level in the in-memory register and issues exactly one
\* alert-clear read and then exactly one command write, which carries the
\* updated byte; so setInterrupt(true, true) followed by
\* setInterrupt(false, false) ends with ACK = 0 and ACK_THD = 0, each of the
\* two writes preceded by an alert-clear.
C8_SetInterruptClearsThenWrites ==
    op.name = "setInterrupt" =>
        /\ ACK(commandRegister) = BoolInt(op.args[1])
        /\ ACK_THD(commandRegister) = BoolInt(op.args[2])
        /\ ClearThenWritePrefix("setInterrupt_clearAck",
                                "setInterrupt_writeCommand")
        /\ pc \in {"setInterrupt_clearAck", "setInterrupt_writeCommand", "idle"}
        /\ pc = "idle" =>
              /\ log[2].data = commandRegister
              /\ ACK(log[2].data) = BoolInt(op.args[1])
              /\ ACK_THD(log[2].data) = BoolInt(op.args[2])
        /\ (pc = "idle" /\ op.args = <<FALSE, FALSE>>) =>
              /\ ACK(commandRegister) = 0
              /\ ACK_THD(commandRegister) = 0

\* setInterrupt(false, false) has returned right after setInterrupt(true,
\* true), with ACK and ACK_THD cleared in the byte it wrote.
C8_Witness ==
    /\ Returned("setInterrupt")
    /\ op.args = <<FALSE, FALSE>>
    /\ prevOp = [name |-> "setInterrupt", args |-> <<TRUE, TRUE>>]
    /\ ClearThenWrite
    /\ ACK(log[2].data) = 0
    /\ ACK_THD(log[2].data) = 0

-----------------------------------------------------------------------------
(* C9 *)

\* The driver as constructed: no method has been called yet.
Constructed == op.name = "none" /\ pc = "idle"

\* C9 as stated: right after construction the in-memory register decodes to
\* SD = 0, IT = One (1x), ACK_THD = 0 and ACK = 0.
C9_DefaultIsOneT ==
    Constructed =>
        /\ SD(commandRegister) = 0
        /\ IT(commandRegister) = VEML6070_1_T
        /\ ACK_THD(commandRegister) = 0
        /\ ACK(commandRegister) = 0

\* C9 amended: right after construction the in-memory register decodes to
\* SD = 0, IT = Half (0.5x), ACK_THD = 0 and ACK = 0; the one bit set in the
\* byte 0x02 is the reserved bit 1.
C9_DefaultIsHalfT ==
    Constructed =>
        /\ SD(commandRegister) = 0
        /\ IT(commandRegister) = VEML6070_HALF_T
        /\ ACK_THD(commandRegister) = 0
        /\ ACK(commandRegister) = 0
        /\ Reserved(commandRegister) = 1

\* The constructed driver, holding the byte 0x02.
C9_Witness == Constructed /\ commandRegister = 2

-----------------------------------------------------------------------------
(* C10 *)

\* The bytes transmitted by the command writes of the current call.
TxBytes == {log[k].data : k \in {j \in 1 .. Len(log) : log[j].ev = "tx"}}

\* C10 as stated: the reserved bit 1 of the command byte is 0 in every state
\* of the in-memory register and in every byte a command write transmits.
C10_ReservedBitIsZero ==
    /\ Reserved(commandRegister) = 0
    /\ \A b \in TxBytes : Reserved(b) = 0

\* C10 amended: the reserved bit 1 of the command byte is 1 in every state of
\* the in-memory register and in every byte a command write transmits; the
\* constructor sets it and no field assignment touches it.
C10_ReservedBitIsOne ==
    /\ Reserved(commandRegister) = 1
    /\ \A b \in TxBytes : Reserved(b) = 1

\* sleep(true) has transmitted a byte with SD, IT, ACK_THD and ACK all set
\* next to the reserved bit.
C10_Witness ==
    /\ Returned("sleep")
    /\ TxBytes = {63}
    /\ commandRegister = 63

-----------------------------------------------------------------------------
(* C11 *)

\* The addresses the driver reads from: data-high, data-low, alert-clear.
ReadAddrs == {VEML6070_ADDR_H, VEML6070_ADDR_L, VEML6070_ADDR_ARA}

\* The addresses of the command writes of the current call.
TxAddrs == {log[k].addr : k \in {j \in 1 .. Len(log) : log[j].ev = "tx"}}

\* The addresses of the reads of the current call.
RxAddrs == {log[k].addr : k \in {j \in 1 .. Len(log) : log[j].ev = "rx"}}

\* C11 as stated: the four address roles have pairwise distinct addresses,
\* so no command write goes to an address that a data read or the
\* alert-clear read uses.
C11_WriteAddressNeverRead ==
    \A a \in TxAddrs : a \notin ReadAddrs

\* C11 amended: the roles map to three distinct bus addresses.  Command
\* writes and the data-low read share the address 0x38; the data-high
\* address 0x39 and the alert-clear address 0x0C differ from it and from each
\* other, and no command write is ever sent to either of them.  The second
\* data read of readUV() is the one at 0x38.
C11_WriteSharesDataLowAddress ==
    /\ Cardinality(ReadAddrs) = 3
    /\ RxAddrs \subseteq ReadAddrs
    /\ \A a \in TxAddrs :
          /\ a = VEML6070_ADDR_L
          /\ a # VEML6070_ADDR_H
          /\ a # VEML6070_ADDR_ARA
    /\ (op.name = "readUV" /\ Len(BusLog) = 2)
          => IsRxAt(BusLog[2], VEML6070_ADDR_L)

\* readUV() has read its low byte at the address the preceding sleep() sent
\* its command write to.
C11_Witness ==
    /\ Returned("readUV")
    /\ prevOp.name = "sleep"
    /\ Len(BusLog) = 2
    /\ BusLog[2].addr = 56
    /\ BusLog[2].ok

-----------------------------------------------------------------------------
(* C12 *)

\* C12: sleep(enabled) sets SD = enabled and leaves IT, ACK_THD and ACK of
\* the in-memory register as they were; it issues exactly one command write,
\* carrying the updated byte, and no read at the alert-clear address or at
\* any other address.  Stated of every step that enters sleep or is taken
\* inside it.
C12_SleepFrame ==
    [][op'.name = "sleep" =>
          /\ SD(commandRegister') = BoolInt(op'.args[1])
          /\ IT(commandRegister') = IT(commandRegister)
          /\ ACK_THD(commandRegister') = ACK_THD(commandRegister)
          /\ ACK(commandRegister') = ACK(commandRegister)
          /\ pc' \in {"sleep_writeCommand", "idle"}
          /\ pc' = "sleep_writeCommand" => log' = <<>>
          /\ pc' = "idle" =>
                /\ Len(log') = 1
                /\ IsTxAt(log'[1], VEML6070_ADDR_L)
                /\ log'[1].data = commandRegister'
                /\ SD(log'[1].data) = BoolInt(op'.args[1])]_vars

\* sleep(false) has returned on a driver with IT = Four and both interrupt
\* bits set, having written the byte 0x3E.
C12_Witness ==
    /\ Returned("sleep")
    /\ op.args = <<FALSE>>
    /\ prevOp = [name |-> "sleep", args |-> <<TRUE>>]
    /\ commandRegister = 62
    /\ Len(log) = 1
    /\ log[1].data = 62

-----------------------------------------------------------------------------
(* C13 *)

\* C13 as stated: a failed transaction does not abort the calling method;
\* begin and setInterrupt always issue their alert-clear read and their
\* command write, and readUV always issues its high-byte read and its
\* low-byte read, whichever of them fails.
C13_FailureNeverAborts ==
    /\ (Returned("begin") \/ Returned("setInterrupt")) => ClearThenWrite
    /\ Returned("readUV") =>
          /\ Len(BusLog) = 2
          /\ IsRxAt(BusLog[1], VEML6070_ADDR_H)
          /\ IsRxAt(BusLog[2], VEML6070_ADDR_L)

\* C13 amended: in begin and setInterrupt the command write follows the
\* alert-clear read whether or not that read failed; in readUV the low-byte
\* read follows a successful high-byte read only: a failed high-byte read
\* ends the call at once with the sentinel 0xFFFF, and no low-byte read is
\* issued.
C13_OnlyReadUVAborts ==
    /\ (Returned("begin") \/ Returned("setInterrupt")) => ClearThenWrite
    /\ Returned("readUV") =>
          /\ Len(BusLog) \in {1, 2}
          /\ IsRxAt(BusLog[1], VEML6070_ADDR_H)
          /\ BusLog[1].ok =>
                Len(BusLog) = 2 /\ IsRxAt(BusLog[2], VEML6070_ADDR_L)
          /\ ~BusLog[1].ok => Len(BusLog) = 1 /\ retUV = 65535

\* readUV() has returned the sentinel after a failed high-byte read, its only
\* bus transaction.
C13_Witness ==
    /\ Returned("readUV")
    /\ Len(BusLog) = 1
    /\ ~BusLog[1].ok
    /\ retUV = 65535

-----------------------------------------------------------------------------
(* C14 *)

\* C14: within every readUV() call all the sleeps of the integration wait
\* come before the first bus read, the read at the data-high address comes
\* before the read at the data-low address, and a read at the data-low
\* address is never issued without a read at the data-high address before it
\* in the same call.
C14_WaitThenHighThenLow ==
    op.name = "readUV" =>
        /\ \A j \in 1 .. Len(log) : \A k \in 1 .. Len(log) :
              (j < k /\ log[j].ev = "rx") => log[k].ev = "rx"
        /\ BusLog # <<>> => Len(SleepLog) = ExpectedSleeps(requested)
        /\ Len(BusLog) <= 2
        /\ Len(BusLog) >= 1 => IsRxAt(BusLog[1], VEML6070_ADDR_H)
        /\ Len(BusLog) = 2 => IsRxAt(BusLog[2], VEML6070_ADDR_L)
        /\ \A k \in 1 .. Len(log) :
              IsRxAt(log[k], VEML6070_ADDR_L) =>
                  \E j \in 1 .. (k - 1) : IsRxAt(log[j], VEML6070_ADDR_H)

\* readUV() has returned on a driver begun with Four: eight sleeps, then the
\* read at the data-high address, then the read at the data-low address.
C14_Witness ==
    /\ Returned("readUV")
    /\ requested = VEML6070_4_T
    /\ Len(log) = 10
    /\ log[8].ev = "sleep"
    /\ IsRxAt(log[9], VEML6070_ADDR_H)
    /\ IsRxAt(log[10], VEML6070_ADDR_L)

-----------------------------------------------------------------------------
(* C15 *)

\* C15: every change a configuration call makes to the in-memory command
\* register is flushed within that call: once begin has been called,
\* whenever a public method has returned, the byte carried by the most recent
\* command-write attempt is the current in-memory command byte.
C15_MutationsAreFlushed ==
    (begun /\ pc = "idle") => lastTx = <<commandRegister>>

\* readUV() has returned after a setInterrupt(true, true) whose write failed
\* and left the device behind: the attempted byte is the in-memory byte.
C15_Witness ==
    /\ Returned("readUV")
    /\ prevOp = [name |-> "setInterrupt", args |-> <<TRUE, TRUE>>]
    /\ ~lastWriteOk
    /\ devReg # <<commandRegister>>
    /\ lastTx = <<commandRegister>>

-----------------------------------------------------------------------------
(* C16 *)

\* The number of transactions of kind ev at address addr in the current call.
CountAt(ev, addr) ==
    Cardinality({k \in 1 .. Len(log) : log[k].ev = ev /\ log[k].addr = addr})

\* C16: no method retries a failed transaction.  Under any pattern of
\* failures one call of begin or setInterrupt issues exactly one alert-clear
\* read and one command write, sleep exactly one command write, clearAck
\* exactly one read, and readUV at most one read at the data-high address and
\* at most one at the data-low address; no call ever holds a second
\* transaction of one kind at one address.
C16_NoRetry ==
    /\ CountAt("rx", VEML6070_ADDR_ARA) <= 1
    /\ CountAt("tx", VEML6070_ADDR_L) <= 1
    /\ CountAt("rx", VEML6070_ADDR_H) <= 1
    /\ CountAt("rx", VEML6070_ADDR_L) <= 1
    /\ (Returned("begin") \/ Returned("setInterrupt")) =>
          /\ CountAt("rx", VEML6070_ADDR_ARA) = 1
          /\ CountAt("tx", VEML6070_ADDR_L) = 1
          /\ Len(log) = 2
    /\ Returned("sleep") =>
          CountAt("tx", VEML6070_ADDR_L) = 1 /\ Len(log) = 1
    /\ Returned("clearAck") =>
          CountAt("rx", VEML6070_ADDR_ARA) = 1 /\ Len(log) = 1
    /\ op.name = "readUV" => Len(BusLog) <= 2

\* setInterrupt has returned after its alert-clear read and its command write
\* both failed, each issued once.
C16_Witness ==
    /\ Returned("setInterrupt")
    /\ Len(log) = 2
    /\ ~log[1].ok
    /\ ~log[2].ok
    /\ CountAt("rx", VEML6070_ADDR_ARA) = 1
    /\ CountAt("tx", VEML6070_ADDR_L) = 1

-----------------------------------------------------------------------------
(* C17 *)

\* C17: readUV(), waitForNext() and clearAck() never change the in-memory
\* command register and never issue a write transaction, whatever the outcome
\* of their reads.  Stated of every step that enters one of them or is taken
\* inside it.
C17_ReadersLeaveRegister ==
    [][op'.name \in {"readUV", "waitForNext", "clearAck"} =>
          /\ commandRegister' = commandRegister
          /\ lastTx' = lastTx
          /\ devReg' = devReg
          /\ \A k \in 1 .. Len(log') : log'[k].ev # "tx"]_vars

\* clearAck() has returned after a failed read, right after a readUV(), with
\* every field of the register still set.
C17_Witness ==
    /\ Returned("clearAck")
    /\ prevOp.name = "readUV"
    /\ ~log[1].ok
    /\ commandRegister = 63
    /\ lastTx = <<63>>

-----------------------------------------------------------------------------
(* C18 *)

\* C18: each configuration call changes only its own fields of the in-memory
\* command byte: setInterrupt leaves SD and IT as they were, begin leaves SD,
\* ACK_THD and ACK as they were, and bits 6 and 7 of the byte are 0 in every
\* state.  The frame is stated of every step that enters the call or is taken
\* inside it.
C18_ConfigurationFrame ==
    [][/\ op'.name = "setInterrupt" =>
             /\ SD(commandRegister') = SD(commandRegister)
             /\ IT(commandRegister') = IT(commandRegister)
       /\ op'.name = "begin" =>
             /\ SD(commandRegister') = SD(commandRegister)
             /\ ACK_THD(commandRegister') = ACK_THD(commandRegister)
             /\ ACK(commandRegister') = ACK(commandRegister)
       /\ GetField(commandRegister, 6, 2) = 0
       /\ GetField(commandRegister', 6, 2) = 0]_vars

\* setInterrupt(true, true) has returned on a sleeping driver begun with
\* Four: SD and IT are as sleep and begin left them.
C18_Witness ==
    /\ Returned("setInterrupt")
    /\ op.args = <<TRUE, TRUE>>
    /\ prevOp = [name |-> "sleep", args |-> <<TRUE>>]
    /\ requested = VEML6070_4_T
    /\ SD(commandRegister) = 1
    /\ IT(commandRegister) = VEML6070_4_T
    /\ commandRegister = 63

=============================================================================
